---- MODULE Spec2Model ----
(***************************************************************************)
(* Model of exercises/code/python/05_complex_types.py: a straight-line     *)
(* script that acquires a Spark session, reads three CSV datasets, builds  *)
(* an array, a map and a struct column from the drivers dataset, prints    *)
(* schemas and sample rows, and stops the session.                         *)
(*                                                                         *)
(* The engine functions the script calls (array, create_map, struct,       *)
(* explode, posexplode, size, sort_array, array_contains, to_json, show,   *)
(* head) are modelled at each call site with the arguments the script      *)
(* passes.                                                                 *)
(***************************************************************************)
EXTENDS Integers, Sequences, FiniteSets, TLC

VARIABLES pc, status, failedAt, conn, session, acquireCount, stopCount,
          storage, persisted, dfs, out, headRows, trace

vars == <<pc, status, failedAt, conn, session, acquireCount, stopCount,
          storage, persisted, dfs, out, headRows, trace>>

(* ------------------------------ bounds --------------------------------- *)

\* largest number of data lines in the stored drivers dataset
MaxRows == 6

\* largest number of data lines in the stored rides and riders datasets
MaxOtherRows == 1

(* ------------------------------ values --------------------------------- *)

\* SQL NULL
Null == "<null>"

\* (vehicle_make, vehicle_model) fields of a stored drivers line; an empty
\* field is read back as NULL
DriverRowVals == { <<"Subaru", "Outback">>, <<"Ford", "">> }

\* string order used by sort_array (NULL first in ascending order)
Rank(v) ==
  CASE v = Null      -> 0
    [] v = "Ford"    -> 1
    [] v = "Outback" -> 2
    [] v = "Subaru"  -> 3
    [] OTHER         -> 4

Min(a, b) == IF a <= b THEN a ELSE b

RECURSIVE Flatten(_)
Flatten(ss) == IF ss = <<>> THEN <<>> ELSE Head(ss) \o Flatten(Tail(ss))

Names(schema) == [i \in DOMAIN schema |-> schema[i].name]

TypeOf(schema, c) ==
  LET i == CHOOSE k \in DOMAIN schema : schema[k].name = c IN schema[i].type

Field(n, t) == [name |-> n, type |-> t]

(* --------------------------- spark.read.csv ---------------------------- *)

IntStrings == { ToString(i) : i \in 0..(MaxRows + 1) }

ParseInt(s) == CHOOSE i \in 0..(MaxRows + 1) : ToString(i) = s

\* inferSchema=True: a column whose non-empty fields all parse as integers
\* (and that has at least one) is an integer column, otherwise a string one
InferType(lines, k) ==
  LET vals == { lines[i][k] : i \in DOMAIN lines } \ {""}
  IN  IF vals # {} /\ vals \subseteq IntStrings THEN "integer" ELSE "string"

ParseField(s, t) ==
  IF s = "" THEN Null ELSE IF t = "integer" THEN ParseInt(s) ELSE s

\* spark.read.csv(path, header=True, inferSchema=True)
ReadCsv(file) ==
  LET hdr == file.header
      schema == [k \in DOMAIN hdr |-> Field(hdr[k], InferType(file.lines, k))]
  IN  [schema |-> schema,
       rows   |-> [i \in DOMAIN file.lines |->
                    [c \in { hdr[k] : k \in DOMAIN hdr } |->
                      LET k == CHOOSE j \in DOMAIN hdr : hdr[j] = c
                      IN  ParseField(file.lines[i][k], schema[k].type)]]]

(* ----------------------- dataframe transformations --------------------- *)

\* the values of column c, row by row
Col(df, c) == [i \in DOMAIN df.rows |-> df.rows[i][c]]

\* DataFrame.withColumn(name, expr), vals[i] being the value of expr on row
\* i: a new dataframe, the receiver untouched
WithColumn(df, name, type, vals) ==
  [schema |-> IF \E k \in DOMAIN df.schema : df.schema[k].name = name
              THEN [k \in DOMAIN df.schema |->
                     IF df.schema[k].name = name THEN Field(name, type)
                     ELSE df.schema[k]]
              ELSE Append(df.schema, Field(name, type)),
   rows   |-> [i \in DOMAIN df.rows |->
                [c \in DOMAIN df.rows[i] \cup {name} |->
                  IF c = name THEN vals[i] ELSE df.rows[i][c]]]]

\* DataFrame.select(*cols) with plain column names
Select(df, cols) ==
  [schema |-> [k \in DOMAIN cols |-> Field(cols[k], TypeOf(df.schema, cols[k]))],
   rows   |-> [i \in DOMAIN df.rows |->
                [c \in { cols[k] : k \in DOMAIN cols } |-> df.rows[i][c]]]]

\* the array built with its two columns in the other order
VehicleArraySwapped(r) == << r["vehicle_model"], r["vehicle_make"] >>

\* array("vehicle_make", "vehicle_model")
VehicleArray(r) == << r["vehicle_make"], r["vehicle_model"] >>

\* the map built with the two value columns exchanged
VehicleMapSwapped(r) ==
  << [key |-> "make",  value |-> r["vehicle_model"]],
     [key |-> "model", value |-> r["vehicle_make"]] >>

\* create_map(lit("make"), "vehicle_make", lit("model"), "vehicle_model"):
\* entries in insertion order
VehicleMap(r) ==
  << [key |-> "make",  value |-> r["vehicle_make"]],
     [key |-> "model", value |-> r["vehicle_model"]] >>

\* struct(col("vehicle_make").alias("make"), col("vehicle_model").alias("model"))
VehicleStruct(r) == [make |-> r["vehicle_make"], model |-> r["vehicle_model"]]

\* col(c)[i] on an array: zero-based, NULL when out of range
GetItem(arr, i) == IF i + 1 \in DOMAIN arr THEN arr[i + 1] ELSE Null

\* col(c).k on a map: the value of key k, NULL when absent
MapGet(m, k) ==
  IF \E i \in DOMAIN m : m[i].key = k
  THEN m[CHOOSE i \in DOMAIN m : m[i].key = k].value
  ELSE Null

\* size(c) of an array or a map
Size(c) == Len(c)

\* sort_array(c, asc=True)
RECURSIVE SortArray(_)
SortArray(arr) ==
  IF arr = <<>> THEN <<>>
  ELSE LET m == CHOOSE i \in DOMAIN arr :
                  \A j \in DOMAIN arr :
                    Rank(arr[i]) < Rank(arr[j]) \/ (Rank(arr[i]) = Rank(arr[j]) /\ i <= j)
           rest == [k \in 1..(Len(arr) - 1) |-> IF k < m THEN arr[k] ELSE arr[k + 1]]
       IN  <<arr[m]>> \o SortArray(rest)

\* array_contains(c, v): true when found, NULL when not found but the array
\* holds a NULL, false otherwise
ArrayContains(arr, v) ==
  IF \E i \in DOMAIN arr : arr[i] = v THEN "true"
  ELSE IF \E i \in DOMAIN arr : arr[i] = Null THEN Null ELSE "false"

\* to_json(struct): the members of the JSON object in field order, a NULL
\* field left out
ToJson(s) ==
  (IF s.make = Null THEN <<>> ELSE << <<"make", s.make>> >>) \o
  (IF s.model = Null THEN <<>> ELSE << <<"model", s.model>> >>)

\* explode(array): one generated row per element
ExplodeArray(arr) == [i \in DOMAIN arr |-> ("col" :> arr[i])]

\* posexplode(array): one generated row per element, with its zero-based position
PosExplodeArray(arr, pos, col) ==
  [i \in DOMAIN arr |-> (pos :> (i - 1)) @@ (col :> arr[i])]

\* explode(map): one generated row per entry
ExplodeMap(m) == [i \in DOMAIN m |-> ("key" :> m[i].key) @@ ("value" :> m[i].value)]

\* posexplode(map): one generated row per entry, with its zero-based position
PosExplodeMap(m) ==
  [i \in DOMAIN m |-> ("pos" :> (i - 1)) @@ ("key" :> m[i].key) @@ ("value" :> m[i].value)]

\* df.select(c, expr), vals[i] being the value of expr on row i: one output
\* row per input row
SelectExpr(df, c, name, type, vals) ==
  [schema |-> << Field(c, TypeOf(df.schema, c)), Field(name, type) >>,
   rows   |-> [i \in DOMAIN df.rows |-> (c :> df.rows[i][c]) @@ (name :> vals[i])]]

\* df.select(c, generator), gens[i] being the rows generated from row i: the
\* generated rows of every input row, in order, each carrying the input
\* row's column c
SelectGen(df, c, genSchema, gens) ==
  [schema |-> << Field(c, TypeOf(df.schema, c)) >> \o genSchema,
   rows   |-> Flatten([i \in DOMAIN df.rows |->
                [j \in DOMAIN gens[i] |-> (c :> df.rows[i][c]) @@ gens[i][j]]])]

\* DataFrame.show(n, False) prints, and DataFrame.head(n) returns, the first
\* n rows, or all of them when there are fewer
FirstRows(df, n) == SubSeq(df.rows, 1, Min(n, Len(df.rows)))

(* ----------------------------- the script ------------------------------ *)

Stmt(line, op, df, fn, n) == [line |-> line, op |-> op, df |-> df, fn |-> fn, n |-> n]

\* the setup without the read of riders, which no later statement uses
SetupWithoutRiders ==
  << Stmt(40, "get_connection", "conn", "CONNECTION_NAME", 0),
     Stmt(41, "get_spark_session", "spark", "", 0),
     Stmt(44, "read_csv", "rides", "/duocar/raw/rides/", 0),
     Stmt(45, "read_csv", "drivers", "/duocar/raw/drivers/", 0) >>

\* lines 40-46: connection, session, the three reads
Setup ==
  << Stmt(40, "get_connection", "conn", "CONNECTION_NAME", 0),
     Stmt(41, "get_spark_session", "spark", "", 0),
     Stmt(44, "read_csv", "rides", "/duocar/raw/rides/", 0),
     Stmt(45, "read_csv", "drivers", "/duocar/raw/drivers/", 0),
     Stmt(46, "read_csv", "riders", "/duocar/raw/riders/", 0) >>

\* the array section showing the sample rows before printing the schema
ArraySectionShowFirst ==
  << Stmt(55, "derive", "drivers_array", "array", 0),
     Stmt(59, "show", "drivers_array", "all", 5),
     Stmt(58, "printSchema", "drivers_array", "", 0),
     Stmt(63, "show", "drivers_array", "getItem0", 5),
     Stmt(71, "show", "drivers_array", "size", 5),
     Stmt(79, "show", "drivers_array", "sort_array", 5),
     Stmt(85, "show", "drivers_array", "array_contains", 5),
     Stmt(91, "show", "drivers_array", "explode", 5),
     Stmt(94, "show", "drivers_array", "posexplode", 5),
     Stmt(99, "show", "drivers_array", "posexplode_alias", 5) >>

\* lines 54-101
ArraySection ==
  << Stmt(55, "derive", "drivers_array", "array", 0),
     Stmt(58, "printSchema", "drivers_array", "", 0),
     Stmt(59, "show", "drivers_array", "all", 5),
     Stmt(63, "show", "drivers_array", "getItem0", 5),
     Stmt(71, "show", "drivers_array", "size", 5),
     Stmt(79, "show", "drivers_array", "sort_array", 5),
     Stmt(85, "show", "drivers_array", "array_contains", 5),
     Stmt(91, "show", "drivers_array", "explode", 5),
     Stmt(94, "show", "drivers_array", "posexplode", 5),
     Stmt(99, "show", "drivers_array", "posexplode_alias", 5) >>

\* the map section with the explode display left at show()'s default of 20 rows
MapSectionShowDefault ==
  << Stmt(110, "derive", "drivers_map", "create_map", 0),
     Stmt(113, "printSchema", "drivers_map", "", 0),
     Stmt(114, "show", "drivers_map", "all", 5),
     Stmt(117, "show", "drivers_map", "map_make", 5),
     Stmt(120, "show", "drivers_map", "map_size", 5),
     Stmt(123, "show", "drivers_map", "map_explode", 20),
     Stmt(124, "show", "drivers_map", "map_posexplode", 5) >>

\* lines 109-124
MapSection ==
  << Stmt(110, "derive", "drivers_map", "create_map", 0),
     Stmt(113, "printSchema", "drivers_map", "", 0),
     Stmt(114, "show", "drivers_map", "all", 5),
     Stmt(117, "show", "drivers_map", "map_make", 5),
     Stmt(120, "show", "drivers_map", "map_size", 5),
     Stmt(123, "show", "drivers_map", "map_explode", 5),
     Stmt(124, "show", "drivers_map", "map_posexplode", 5) >>

\* the struct section stopping the session before its last display
StructSectionStopEarly ==
  << Stmt(133, "derive", "drivers_struct", "struct", 0),
     Stmt(136, "printSchema", "drivers_struct", "", 0),
     Stmt(137, "show", "drivers_struct", "all", 5),
     Stmt(140, "head", "drivers_struct", "all", 5),
     Stmt(143, "show", "drivers_struct", "struct_make", 5),
     Stmt(181, "stop", "spark", "", 0),
     Stmt(149, "show", "drivers_struct", "to_json", 5) >>

\* lines 132-151
StructSection ==
  << Stmt(133, "derive", "drivers_struct", "struct", 0),
     Stmt(136, "printSchema", "drivers_struct", "", 0),
     Stmt(137, "show", "drivers_struct", "all", 5),
     Stmt(140, "head", "drivers_struct", "all", 5),
     Stmt(143, "show", "drivers_struct", "struct_make", 5),
     Stmt(149, "show", "drivers_struct", "to_json", 5) >>

\* line 181
Cleanup == << Stmt(181, "stop", "spark", "", 0) >>

Program == Setup \o ArraySection \o MapSection \o StructSection \o Cleanup

\* the last display replaced by a write of its dataframe to storage
WritesOutput(stmt) == IF stmt.line = 149 THEN {"/duocar/out/"} ELSE {}

\* the storage paths a statement writes: the script calls no writer
Writes(stmt) == {}

\* the dataframe a derive statement builds from drivers (withColumn + select)
Derived(drivers, fn) ==
  CASE fn = "array" ->
         Select(WithColumn(drivers, "vehicle_array", "array<string>",
                           [i \in DOMAIN drivers.rows |-> VehicleArray(drivers.rows[i])]),
                <<"vehicle_make", "vehicle_model", "vehicle_array">>)
    [] fn = "create_map" ->
         Select(WithColumn(drivers, "vehicle_map", "map<string,string>",
                           [i \in DOMAIN drivers.rows |-> VehicleMap(drivers.rows[i])]),
                <<"vehicle_make", "vehicle_model", "vehicle_map">>)
    [] fn = "struct" ->
         Select(WithColumn(drivers, "vehicle_struct", "struct<make:string,model:string>",
                           [i \in DOMAIN drivers.rows |-> VehicleStruct(drivers.rows[i])]),
                <<"vehicle_make", "vehicle_model", "vehicle_struct">>)

\* the dataframe a show or head statement displays
Selected(df, fn) ==
  LET arr == Col(df, "vehicle_array")
      map == Col(df, "vehicle_map")
      str == Col(df, "vehicle_struct")
  IN
  CASE fn = "all" -> df
    [] fn = "getItem0" ->
         SelectExpr(df, "vehicle_array", "vehicle_array[0]", "string",
                    [i \in DOMAIN arr |-> GetItem(arr[i], 0)])
    [] fn = "size" ->
         SelectExpr(df, "vehicle_array", "size(vehicle_array)", "integer",
                    [i \in DOMAIN arr |-> Size(arr[i])])
    [] fn = "sort_array" ->
         SelectExpr(df, "vehicle_array", "sort_array(vehicle_array, true)",
                    "array<string>", [i \in DOMAIN arr |-> SortArray(arr[i])])
    [] fn = "array_contains" ->
         SelectExpr(df, "vehicle_array", "array_contains(vehicle_array, Subaru)",
                    "boolean", [i \in DOMAIN arr |-> ArrayContains(arr[i], "Subaru")])
    [] fn = "explode" ->
         SelectGen(df, "vehicle_array", << Field("col", "string") >>,
                   [i \in DOMAIN arr |-> ExplodeArray(arr[i])])
    [] fn = "posexplode" ->
         SelectGen(df, "vehicle_array",
                   << Field("pos", "integer"), Field("col", "string") >>,
                   [i \in DOMAIN arr |-> PosExplodeArray(arr[i], "pos", "col")])
    [] fn = "posexplode_alias" ->
         SelectGen(df, "vehicle_array",
                   << Field("position", "integer"), Field("column", "string") >>,
                   [i \in DOMAIN arr |-> PosExplodeArray(arr[i], "position", "column")])
    [] fn = "map_make" ->
         SelectExpr(df, "vehicle_map", "vehicle_map[make]", "string",
                    [i \in DOMAIN map |-> MapGet(map[i], "make")])
    [] fn = "map_size" ->
         SelectExpr(df, "vehicle_map", "size(vehicle_map)", "integer",
                    [i \in DOMAIN map |-> Size(map[i])])
    [] fn = "map_explode" ->
         SelectGen(df, "vehicle_map",
                   << Field("key", "string"), Field("value", "string") >>,
                   [i \in DOMAIN map |-> ExplodeMap(map[i])])
    [] fn = "map_posexplode" ->
         SelectGen(df, "vehicle_map",
                   << Field("pos", "integer"), Field("key", "string"),
                      Field("value", "string") >>,
                   [i \in DOMAIN map |-> PosExplodeMap(map[i])])
    [] fn = "struct_make" ->
         SelectExpr(df, "vehicle_struct", "vehicle_struct.make", "string",
                    [i \in DOMAIN str |-> str[i].make])
    [] fn = "to_json" ->
         SelectExpr(df, "vehicle_struct", "to_json(vehicle_struct)", "string",
                    [i \in DOMAIN str |-> ToJson(str[i])])

(* ------------------------------ the run -------------------------------- *)

Paths == { "/duocar/raw/rides/", "/duocar/raw/drivers/", "/duocar/raw/riders/" }

DriversFile(n, f) ==
  [header |-> <<"id", "vehicle_make", "vehicle_model">>,
   lines  |-> [i \in 1..n |-> << ToString(i), f[i][1], f[i][2] >>]]

OtherFile(n) ==
  [header |-> <<"id">>, lines |-> [i \in 1..n |-> << ToString(i) >>]]

Init ==
  /\ pc = 1
  /\ status = "running"
  /\ failedAt = 0
  /\ conn = FALSE
  /\ session = "none"
  /\ acquireCount = 0
  /\ stopCount = 0
  /\ \E n \in 0..MaxRows, a \in 0..MaxOtherRows, b \in 0..MaxOtherRows :
       \E f \in [1..n -> DriverRowVals] :
         storage = [p \in Paths |->
                     CASE p = "/duocar/raw/rides/"   -> OtherFile(a)
                       [] p = "/duocar/raw/drivers/" -> DriversFile(n, f)
                       [] p = "/duocar/raw/riders/"  -> OtherFile(b)]
  /\ persisted = {}
  /\ dfs = [x \in {} |-> x]
  /\ out = <<>>
  /\ headRows = <<>>
  /\ trace = <<>>

\* the statement the interpreter is at
Cur == Program[pc]

\* statements keep running after one has raised, as if it were caught
RunningPastFailure == pc \in DOMAIN Program

\* an unhandled exception ends the module body: statements run only while
\* none has been raised and the last one has not completed
Running == status = "running" /\ pc \in DOMAIN Program

\* what the statement needs in order not to raise: the names it uses are
\* bound and the session it goes through is active
CanRun(stmt) ==
  CASE stmt.op = "get_connection"    -> TRUE
    [] stmt.op = "get_spark_session" -> conn
    [] stmt.op = "read_csv"          -> session = "active"
    [] stmt.op = "derive"            -> session = "active" /\ "drivers" \in DOMAIN dfs
    [] stmt.op = "stop"              -> session # "none"
    [] OTHER                         -> session = "active" /\ stmt.df \in DOMAIN dfs

\* the statement completes: control moves to the next one, and the run is
\* done after the last
Advance ==
  /\ pc' = pc + 1
  /\ status' = IF pc = Len(Program) THEN "done" ELSE "running"
  /\ failedAt' = failedAt
  /\ trace' = Append(trace, Cur)
  /\ storage' = [p \in DOMAIN storage |->
                  IF p \in Writes(Cur) THEN [header |-> <<>>, lines |-> <<>>]
                  ELSE storage[p]]
  /\ persisted' = persisted \cup (Writes(Cur) \ DOMAIN storage)

Bind(name, df) == [x \in DOMAIN dfs \cup {name} |-> IF x = name THEN df ELSE dfs[x]]

\* line 40
GetConnection ==
  /\ Running /\ Cur.op = "get_connection" /\ CanRun(Cur)
  /\ conn' = TRUE
  /\ Advance
  /\ UNCHANGED <<session, acquireCount, stopCount, dfs, out, headRows>>

\* line 41
GetSparkSession ==
  /\ Running /\ Cur.op = "get_spark_session" /\ CanRun(Cur)
  /\ session' = "active"
  /\ acquireCount' = acquireCount + 1
  /\ Advance
  /\ UNCHANGED <<conn, stopCount, dfs, out, headRows>>

\* lines 44-46
ReadCsvStmt ==
  /\ Running /\ Cur.op = "read_csv" /\ CanRun(Cur)
  /\ dfs' = Bind(Cur.df, ReadCsv(storage[Cur.fn]))
  /\ Advance
  /\ UNCHANGED <<conn, session, acquireCount, stopCount, out, headRows>>

\* lines 55-57, 110-112, 133-135
Derive ==
  /\ Running /\ Cur.op = "derive" /\ CanRun(Cur)
  /\ dfs' = Bind(Cur.df, Derived(dfs["drivers"], Cur.fn))
  /\ Advance
  /\ UNCHANGED <<conn, session, acquireCount, stopCount, out, headRows>>

\* lines 58, 113, 136
printSchema ==
  /\ Running /\ Cur.op = "printSchema" /\ CanRun(Cur)
  /\ out' = Append(out, [line |-> Cur.line, kind |-> "schema", df |-> Cur.df,
                         schema |-> dfs[Cur.df].schema, rows |-> <<>>, total |-> 0])
  /\ Advance
  /\ UNCHANGED <<conn, session, acquireCount, stopCount, dfs, headRows>>

\* every .show(5, False)
Show ==
  /\ Running /\ Cur.op = "show" /\ CanRun(Cur)
  /\ LET sel == Selected(dfs[Cur.df], Cur.fn)
     IN  out' = Append(out, [line |-> Cur.line, kind |-> "rows", df |-> Cur.df,
                             schema |-> sel.schema, rows |-> FirstRows(sel, Cur.n),
                             total |-> Len(sel.rows)])
  /\ Advance
  /\ UNCHANGED <<conn, session, acquireCount, stopCount, dfs, headRows>>

\* line 140
HeadStmt ==
  /\ Running /\ Cur.op = "head" /\ CanRun(Cur)
  /\ headRows' = FirstRows(Selected(dfs[Cur.df], Cur.fn), Cur.n)
  /\ Advance
  /\ UNCHANGED <<conn, session, acquireCount, stopCount, dfs, out>>

\* line 181
Stop ==
  /\ Running /\ Cur.op = "stop" /\ CanRun(Cur)
  /\ session' = "stopped"
  /\ stopCount' = stopCount + 1
  /\ Advance
  /\ UNCHANGED <<conn, acquireCount, dfs, out, headRows>>

\* any statement may raise (connection failure, missing file, analysis or
\* runtime error in the engine); nothing catches it, so the run ends there
Raise ==
  /\ Running
  /\ status' = "failed"
  /\ failedAt' = pc
  /\ UNCHANGED <<pc, conn, session, acquireCount, stopCount, storage, persisted,
                 dfs, out, headRows, trace>>

Next ==
  \/ GetConnection
  \/ GetSparkSession
  \/ ReadCsvStmt
  \/ Derive
  \/ printSchema
  \/ Show
  \/ HeadStmt
  \/ Stop
  \/ Raise

Spec == Init /\ [][Next]_vars

TypeOK ==
  /\ pc \in 1..(Len(Program) + 1)
  /\ status \in {"running", "done", "failed"}
  /\ session \in {"none", "active", "stopped"}

(* ------------------------------ helpers -------------------------------- *)

Terminated == status \in {"done", "failed"}

DriversPath == "/duocar/raw/drivers/"

\* position of a statement in the fixed order of the script's phases
Phase(e) ==
  CASE e.op = "get_connection"                   -> 1
    [] e.op = "get_spark_session"                -> 2
    [] e.op = "read_csv" /\ e.df = "rides"       -> 3
    [] e.op = "read_csv" /\ e.df = "drivers"     -> 4
    [] e.op = "read_csv" /\ e.df = "riders"      -> 5
    [] e.op # "stop" /\ e.df = "drivers_array"   -> 6
    [] e.op # "stop" /\ e.df = "drivers_map"     -> 7
    [] e.op # "stop" /\ e.df = "drivers_struct"  -> 8
    [] e.op = "stop"                             -> 9
    [] OTHER                                     -> 0

DerivedNames == {"drivers_array", "drivers_map", "drivers_struct"}

UsesSession(e) == e.op \in {"read_csv", "derive", "printSchema", "show", "head"}

Executed(line) == \E i \in DOMAIN trace : trace[i].line = line

OutAt(line) == out[CHOOSE k \in DOMAIN out : out[k].line = line]

Printed(line) == \E k \in DOMAIN out : out[k].line = line

(* ------------------------------- claims -------------------------------- *)

\* C1: the statements execute one at a time in the fixed order connect,
\* session, read rides, read drivers, read riders, array section, map
\* section, struct section, stop; in each section the derived dataframe is
\* built first, its schema is printed next, and sample rows come only after
\* the schema; a run in which nothing fails executes all of them.
C1_FixedOrder ==
  /\ Len(trace) = pc - 1
  /\ \A i, j \in DOMAIN trace :
       i < j => /\ Phase(trace[i]) >= 1
                /\ Phase(trace[i]) <= Phase(trace[j])
                /\ trace[i].line < trace[j].line
                /\ Phase(trace[i]) \notin 6..8 => Phase(trace[i]) < Phase(trace[j])
  /\ \A i \in DOMAIN trace :
       trace[i].df \in DerivedNames =>
         /\ trace[i].op # "derive" =>
              \E k \in 1..(i - 1) : trace[k].op = "derive" /\ trace[k].df = trace[i].df
         /\ trace[i].op = "derive" /\ i + 1 \in DOMAIN trace =>
              trace[i + 1].op = "printSchema" /\ trace[i + 1].df = trace[i].df
         /\ trace[i].op \in {"show", "head"} =>
              \E k \in 1..(i - 1) : trace[k].op = "printSchema" /\ trace[k].df = trace[i].df
  /\ \A k \in DOMAIN out :
       out[k].kind = "rows" =>
         \E h \in 1..(k - 1) : out[h].kind = "schema" /\ out[h].df = out[k].df
  /\ status = "done" => { Phase(trace[i]) : i \in DOMAIN trace } = 1..9

C1_Witness ==
  /\ status = "done"
  /\ Len(trace) = 29
  /\ trace[6].op = "derive" /\ trace[7].op = "printSchema" /\ trace[8].op = "show"
  /\ trace[29].op = "stop"

\* C2: no run terminates, whether by completing or by a statement raising,
\* with an acquired session left unreleased.
C2_ReleasedOnEveryRun == Terminated => session # "active"

\* C3: the session is acquired at most once and before the first read, is
\* stopped at most once and only after the last display (the to_json show),
\* nothing that goes through the session executes after it is stopped, and a
\* run in which nothing fails acquires it once and stops it once.
C3_SessionLifecycle ==
  /\ acquireCount <= 1 /\ stopCount <= 1
  /\ acquireCount = Cardinality({ i \in DOMAIN trace : trace[i].op = "get_spark_session" })
  /\ stopCount = Cardinality({ i \in DOMAIN trace : trace[i].op = "stop" })
  /\ \A i \in DOMAIN trace :
       UsesSession(trace[i]) =>
         /\ \E k \in 1..(i - 1) : trace[k].op = "get_spark_session"
         /\ \A k \in 1..(i - 1) : trace[k].op # "stop"
  /\ (session = "stopped") = (stopCount = 1)
  /\ session = "stopped" =>
       /\ Executed(149) /\ Printed(149)
       /\ \A i \in DOMAIN trace : trace[i].op \in {"show", "head", "printSchema"} =>
            \E k \in (i + 1)..Len(trace) : trace[k].op = "stop"
  /\ status = "done" => acquireCount = 1 /\ stopCount = 1 /\ session = "stopped"

C3_Witness ==
  /\ status = "done" /\ session = "stopped"
  /\ acquireCount = 1 /\ stopCount = 1
  /\ trace[Len(trace)].op = "stop" /\ trace[Len(trace) - 1].fn = "to_json"

\* C4: a statement that raises ends the run there: its effects are not
\* applied, it is not retried, and from then on nothing executes or changes.
C4_FaultPropagates ==
  [][ /\ status = "failed" => UNCHANGED vars
      /\ status' = "failed" =>
           /\ status = "running"
           /\ failedAt' = pc /\ pc' = pc
           /\ UNCHANGED <<trace, out, headRows, dfs, conn, session,
                          acquireCount, stopCount, storage, persisted>> ]_vars

\* a display statement has raised after some output was printed
C4_Witness ==
  /\ status = "failed"
  /\ Program[failedAt].op = "show"
  /\ Len(out) > 0 /\ Len(out) < 19
  /\ Len(trace) = failedAt - 1

\* C5: every show(5, False) prints exactly min(5, R) rows of the R rows of
\* the dataframe it displays, and head(5) returns exactly min(5, R) rows,
\* the explode and posexplode displays included.
C5_AtMostFiveRows ==
  /\ \A k \in DOMAIN out :
       out[k].kind = "rows" =>
         /\ Len(out[k].rows) = (IF out[k].total < 5 THEN out[k].total ELSE 5)
         /\ Len(out[k].rows) <= 5
  /\ Executed(140) =>
       LET R == Len(dfs["drivers_struct"].rows)
       IN  Len(headRows) = (IF R < 5 THEN R ELSE 5)

\* an explode display of more rows than drivers holds was cut to 5, while
\* the plain display and head(5) of the 4 rows gave all 4
C5_Witness ==
  /\ status = "done"
  /\ Len(dfs["drivers"].rows) = 4
  /\ OutAt(91).total = 8 /\ Len(OutAt(91).rows) = 5
  /\ OutAt(124).total = 8 /\ Len(OutAt(124).rows) = 5
  /\ OutAt(59).total = 4 /\ Len(OutAt(59).rows) = 4
  /\ Len(headRows) = 4

\* C6: no statement writes to storage: every step leaves the three stored
\* datasets as they were and no persisted output exists.
C6_NoStorageWrite ==
  [][ storage' = storage /\ persisted = {} /\ persisted' = {} ]_vars

C6_Witness ==
  /\ status = "done"
  /\ Len(out) = 19
  /\ persisted = {}
  /\ DOMAIN storage = Paths
  /\ Len(storage[DriversPath].lines) = 2

\* C7: rides, drivers and riders are all read, in that order, before any
\* derivation or display; a run that ends at one of the three reads has
\* printed nothing.
C7_ReadsFirst ==
  /\ (out # <<>> \/ \E i \in DOMAIN trace : trace[i].op \in {"derive", "printSchema", "show", "head"}) =>
       /\ {"rides", "drivers", "riders"} \subseteq DOMAIN dfs
       /\ \E a, b, c \in DOMAIN trace :
            /\ a < b /\ b < c
            /\ trace[a].op = "read_csv" /\ trace[a].df = "rides"
            /\ trace[b].op = "read_csv" /\ trace[b].df = "drivers"
            /\ trace[c].op = "read_csv" /\ trace[c].df = "riders"
            /\ \A i \in DOMAIN trace :
                 trace[i].op \in {"derive", "printSchema", "show", "head"} => c < i
  /\ (status = "failed" /\ ~({"rides", "drivers", "riders"} \subseteq DOMAIN dfs)) =>
       out = <<>> /\ DOMAIN dfs \cap DerivedNames = {}

\* the read of riders, which nothing uses later, has raised
C7_Witness ==
  /\ status = "failed"
  /\ Program[failedAt].op = "read_csv" /\ Program[failedAt].df = "riders"
  /\ DOMAIN dfs = {"rides", "drivers"}
  /\ Len(dfs["drivers"].rows) > 0
  /\ out = <<>>

\* C8: with N rows in drivers, each of the explode and posexplode displays of
\* vehicle_array and of vehicle_map is of a dataframe of exactly 2N rows,
\* two per driver in driver order; positions are 0 then 1, position 0
\* carrying vehicle_make (key "make" for the map) and position 1
\* vehicle_model (key "model").
C8_ExplodeTwoPerDriver ==
  \A k \in DOMAIN out :
    out[k].line \in {91, 94, 99, 123, 124} =>
      LET e == out[k]
          N == Len(dfs["drivers"].rows)
      IN  /\ e.total = 2 * N
          /\ \A q \in DOMAIN e.rows :
               LET d   == dfs["drivers"].rows[(q + 1) \div 2]
                   p   == (q - 1) % 2
                   val == IF p = 0 THEN d["vehicle_make"] ELSE d["vehicle_model"]
                   key == IF p = 0 THEN "make" ELSE "model"
                   r   == e.rows[q]
               IN  CASE e.line = 91  -> r["col"] = val
                     [] e.line = 94  -> r["pos"] = p /\ r["col"] = val
                     [] e.line = 99  -> r["position"] = p /\ r["column"] = val
                     [] e.line = 123 -> r["key"] = key /\ r["value"] = val
                     [] e.line = 124 -> r["pos"] = p /\ r["key"] = key /\ r["value"] = val

\* three drivers, the second without a model: six exploded rows, of which
\* the displays show five
C8_Witness ==
  /\ status = "done"
  /\ Len(dfs["drivers"].rows) = 3
  /\ dfs["drivers"].rows[2]["vehicle_model"] = Null
  /\ OutAt(91).total = 6 /\ OutAt(94).total = 6 /\ OutAt(99).total = 6
  /\ OutAt(123).total = 6 /\ OutAt(124).total = 6
  /\ OutAt(94).rows[3]["pos"] = 0 /\ OutAt(94).rows[3]["col"] = "Ford"
  /\ OutAt(94).rows[4]["pos"] = 1 /\ OutAt(94).rows[4]["col"] = Null
  /\ OutAt(124).rows[1]["key"] = "make" /\ OutAt(124).rows[2]["key"] = "model"

\* C9: drivers stays as read; each derived dataframe has exactly the columns
\* vehicle_make, vehicle_model and its derived column and as many rows as
\* drivers; row by row, vehicle_array has the two elements make, model in
\* that order, vehicle_map has the two keys "make" and "model" mapping to
\* them, and vehicle_struct has the fields make and model holding them.
C9_DerivedAgree ==
  LET Cols(n, c) ==
        /\ Names(dfs[n].schema) = <<"vehicle_make", "vehicle_model", c>>
        /\ Len(dfs[n].rows) = Len(dfs["drivers"].rows)
        /\ \A i \in DOMAIN dfs[n].rows :
             /\ DOMAIN dfs[n].rows[i] = {"vehicle_make", "vehicle_model", c}
             /\ dfs[n].rows[i]["vehicle_make"] = dfs["drivers"].rows[i]["vehicle_make"]
             /\ dfs[n].rows[i]["vehicle_model"] = dfs["drivers"].rows[i]["vehicle_model"]
  IN
  /\ "drivers" \in DOMAIN dfs =>
       /\ Names(dfs["drivers"].schema) = storage[DriversPath].header
       /\ Len(dfs["drivers"].rows) = Len(storage[DriversPath].lines)
       /\ \A i \in DOMAIN dfs["drivers"].rows :
            LET r == dfs["drivers"].rows[i]
                l == storage[DriversPath].lines[i]
            IN  /\ DOMAIN r = {"id", "vehicle_make", "vehicle_model"}
                /\ r["id"] = i
                /\ r["vehicle_make"] = (IF l[2] = "" THEN Null ELSE l[2])
                /\ r["vehicle_model"] = (IF l[3] = "" THEN Null ELSE l[3])
  /\ "drivers_array" \in DOMAIN dfs =>
       /\ Cols("drivers_array", "vehicle_array")
       /\ \A i \in DOMAIN dfs["drivers_array"].rows :
            LET r == dfs["drivers_array"].rows[i]
            IN  /\ Len(r["vehicle_array"]) = 2
                /\ r["vehicle_array"][1] = r["vehicle_make"]
                /\ r["vehicle_array"][2] = r["vehicle_model"]
  /\ "drivers_map" \in DOMAIN dfs =>
       /\ Cols("drivers_map", "vehicle_map")
       /\ \A i \in DOMAIN dfs["drivers_map"].rows :
            LET r == dfs["drivers_map"].rows[i]
                m == r["vehicle_map"]
            IN  /\ Len(m) = 2
                /\ { m[k].key : k \in DOMAIN m } = {"make", "model"}
                /\ \A k \in DOMAIN m :
                     /\ m[k].key = "make"  => m[k].value = r["vehicle_make"]
                     /\ m[k].key = "model" => m[k].value = r["vehicle_model"]
  /\ "drivers_struct" \in DOMAIN dfs =>
       /\ Cols("drivers_struct", "vehicle_struct")
       /\ \A i \in DOMAIN dfs["drivers_struct"].rows :
            LET r == dfs["drivers_struct"].rows[i]
            IN  /\ DOMAIN r["vehicle_struct"] = {"make", "model"}
                /\ r["vehicle_struct"].make = r["vehicle_make"]
                /\ r["vehicle_struct"].model = r["vehicle_model"]

\* all three derived dataframes built over two drivers, one without a model
C9_Witness ==
  /\ status = "done"
  /\ DerivedNames \subseteq DOMAIN dfs
  /\ Len(dfs["drivers"].rows) = 2
  /\ dfs["drivers_array"].rows[1]["vehicle_array"] = <<"Subaru", "Outback">>
  /\ dfs["drivers_map"].rows[2]["vehicle_map"][2] = [key |-> "model", value |-> Null]
  /\ dfs["drivers_struct"].rows[2]["vehicle_struct"] = [make |-> "Ford", model |-> Null]

====
